---- MODULE Spec2Model ----
(***************************************************************************)
(* Model of extract.py: the line-oriented partitioning loop of             *)
(* format_resume, and ResumeWriter (_format_section_content,               *)
(* write_section, save).                                                   *)
(*                                                                         *)
(* A Python str is a finite sequence of symbols.  A symbol is one          *)
(* character (" ", "\t", "\n", the three characters of the bullet literal) *)
(* or an atomic run of non-whitespace-delimited text such as "Skills".     *)
(***************************************************************************)
EXTENDS Integers, Sequences, FiniteSets

VARIABLES
    content,          \* format_resume: the argument text
    lines,            \* format_resume: content.split('\n'), the list the loop reads
    sections,         \* format_resume: dict section name -> content
    current_section,  \* format_resume: name of the section being read, or None
    current_content,  \* format_resume: list of lines read for current_section
    i,                \* number of lines the for loop of line 234 has consumed
    k,                \* position of the for loop of line 249 in sections.items()
    pc,               \* control point
    document,         \* ResumeWriter.document: its paragraphs, in order
    output_file,      \* the file at ResumeWriter.output_file
    saves,            \* number of completed save() calls
    calls             \* log of _format_section_content calls, in order

vars == <<content, lines, sections, current_section, current_content, i, k, pc,
          document, output_file, saves, calls>>

-----------------------------------------------------------------------------
(* Bounds of the model *)

MaxLines == 4        \* longest exhaustively enumerated input, in lines
MaxApiCalls == 3     \* direct ResumeWriter method calls in SpecWriter

-----------------------------------------------------------------------------
(* Python str primitives *)

NL == "\n"
Whitespace == {" ", "\t", "\n"}

RECURSIVE lstrip(_)
lstrip(s) ==
    IF s # <<>> /\ Head(s) \in Whitespace THEN lstrip(Tail(s)) ELSE s

RECURSIVE rstrip(_)
rstrip(s) ==
    IF s # <<>> /\ s[Len(s)] \in Whitespace
    THEN rstrip(SubSeq(s, 1, Len(s) - 1))
    ELSE s

strip(s) == rstrip(lstrip(s))

startswith(s, prefix) ==
    /\ Len(prefix) <= Len(s)
    /\ SubSeq(s, 1, Len(prefix)) = prefix

RECURSIVE split(_, _)
split(s, sep) ==
    LET hits == {p \in 1..Len(s) : s[p] = sep}
    IN  IF hits = {}
        THEN <<s>>
        ELSE LET p == CHOOSE q \in hits : \A r \in hits : q <= r
             IN  <<SubSeq(s, 1, p - 1)>> \o split(SubSeq(s, p + 1, Len(s)), sep)

RECURSIVE join(_, _)
join(parts, sep) ==
    IF parts = <<>> THEN <<>>
    ELSE IF Len(parts) = 1 THEN parts[1]
    ELSE parts[1] \o <<sep>> \o join(Tail(parts), sep)

\* Python's None, kept apart from every str of the model.
None == <<"<None>">>

\* "is not None" in place of the truth value.
TruthyNotNone(x) == x # None

\* Truth value of an Optional[str]: None and "" are false.
Truthy(x) == x # None /\ x # <<>>

-----------------------------------------------------------------------------
(* format_resume: the sections dict *)

\* Keys of the dict literal, in insertion order.
SectionNames ==
    << <<"Professional Profile">>, <<"Recent Experience">>,
       <<"Education">>, <<"Skills">> >>

SectionSet == {SectionNames[n] : n \in 1..Len(SectionNames)}

\* The keys in sorted order.
SectionsItemsSorted ==
    << <<"Education">>, <<"Professional Profile">>,
       <<"Recent Experience">>, <<"Skills">> >>

\* Order in which sections.items() yields the keys.
SectionsItems == SectionNames

InitialSections == [s \in SectionSet |-> <<>>]

\* The first section taken as current before any heading is read.
InitialCurrentSectionFirst == SectionNames[1]

InitialCurrentSection == None

\* "line in sections"
InSections(line) == line \in SectionSet


-----------------------------------------------------------------------------
(* ResumeWriter: paragraphs of the document *)

HeadingPt == 14
NormalPt == 11

\* The three characters of the literal tested by startswith at line 128.
BulletMarker == <<"U+00E2", "U+20AC", "U+00A2">>

HeadingParagraph(title) ==
    [text |-> title, style |-> "Normal", bold |-> TRUE, size |-> HeadingPt]

PlainParagraph(text) ==
    [text |-> text, style |-> "Normal", bold |-> FALSE, size |-> NormalPt]

BulletParagraph(text) ==
    [text |-> text, style |-> "List Bullet", bold |-> FALSE, size |-> NormalPt]

SpacerParagraph == PlainParagraph(<<>>)

\* Values _format_section_content can return or raise.
StrValue(t) == [type |-> "str", text |-> t, items |-> <<>>]
ListValue(l) == [type |-> "list", text |-> <<>>, items |-> l]
Raise == [type |-> "raise", text |-> <<>>, items |-> <<>>]

\* Text of the bullet paragraph for a stripped line that starts with the marker.
BulletText(stripped) == strip(Tail(stripped))

\* Paragraphs appended by the loop over formatted_content.split('\n').
RECURSIVE StrParagraphs(_)
StrParagraphs(paragraphs) ==
    IF paragraphs = <<>> THEN <<>>
    ELSE LET para == strip(Head(paragraphs))
             this == IF para = <<>> THEN <<>>
                     ELSE IF startswith(para, BulletMarker)
                          THEN <<BulletParagraph(BulletText(para))>>
                          ELSE <<PlainParagraph(para)>>
         IN  this \o StrParagraphs(Tail(paragraphs))

\* Paragraphs appended by the loop over a list formatted_content.
ListParagraphs(items) == [n \in 1..Len(items) |-> BulletParagraph(items[n])]

BodyParagraphs(formatted) ==
    IF formatted.type = "str" THEN StrParagraphs(split(formatted.text, NL))
    ELSE IF formatted.type = "list" THEN ListParagraphs(formatted.items)
    ELSE <<>>

\* write_section without its trailing spacer paragraph.
WriteSectionNoSpacer(title, formatted) ==
    <<HeadingParagraph(title)>> \o BodyParagraphs(formatted)

\* Everything one write_section call appends once formatting has returned.
WriteSectionParagraphs(title, formatted) ==
    <<HeadingParagraph(title)>> \o BodyParagraphs(formatted) \o <<SpacerParagraph>>

-----------------------------------------------------------------------------
(* The LLM behind self.llm.invoke: any reply, or a failure *)

RichReply ==
    join(<< <<" ">> \o BulletMarker \o <<" ", "led team", " ">>,
            <<"\t">>,
            <<"U+00E2", "shipped">> >>, NL)

LLMOutcomes(section_name, prompt_content) ==
    { StrValue(prompt_content), StrValue(<<" ">>), StrValue(RichReply),
      ListValue(<< <<"Python">>, <<"Go">> >>), Raise }

\* Outcomes of _format_section_content(section_name, content):
\* whether llm.invoke was called, and what came back.
FormatSectionContent(section_name, c) ==
    IF ~Truthy(c)
    THEN {[invoked |-> FALSE, result |-> StrValue(c)]}
    ELSE {[invoked |-> TRUE, result |-> r] : r \in LLMOutcomes(section_name, c)}

CallRecord(section_name, c, o) ==
    [section_name |-> section_name, content |-> c,
     invoked |-> o.invoked, result |-> o.result]

-----------------------------------------------------------------------------
(* Inputs *)

BodyA == <<"Senior Engineer, 10 years">>
BodyB == <<"Python, Go">>

InputLineKinds ==
    { <<"Professional Profile">>, <<"Recent Experience">>,
      <<" ", "Education", "\t">>, <<"Skills">>,
      <<"Skills", ":">>, BodyA, <<" ", "Python, Go", " ">>, <<" ">> }

RECURSIVE SeqsUpTo(_, _)
SeqsUpTo(S, n) ==
    IF n = 0 THEN {<<>>}
    ELSE LET shorter == SeqsUpTo(S, n - 1)
         IN  shorter \cup {Append(q, x) : q \in shorter, x \in S}

\* Every ordering of the four headings, each followed by one body line.
Permutations ==
    {p \in [1..Len(SectionNames) -> SectionSet] :
        \A a, b \in 1..Len(SectionNames) : a # b => p[a] # p[b]}

PermutationInputs ==
    {[n \in 1..(2 * Len(SectionNames)) |->
            IF n % 2 = 1 THEN p[(n + 1) \div 2] ELSE body] :
        p \in Permutations, body \in {BodyA, BodyB}}

EndToEndInput == << <<"Professional Profile">>, BodyA, <<"Skills">>, BodyB >>

InputTexts ==
    {join(ls, NL) : ls \in SeqsUpTo(InputLineKinds, MaxLines)
                           \cup PermutationInputs \cup {EndToEndInput}}

-----------------------------------------------------------------------------
(* format_resume *)

NoFile == [exists |-> FALSE, paragraphs |-> <<>>]

InitWriter ==
    /\ document = <<>>
    /\ output_file = NoFile
    /\ saves = 0
    /\ calls = <<>>

Init ==
    /\ content \in InputTexts
    /\ lines = split(content, NL)
    /\ sections = InitialSections
    /\ current_section = InitialCurrentSection
    /\ current_content = <<>>
    /\ i = 0
    /\ k = 1
    /\ pc = "scan"
    /\ InitWriter

\* The accumulated lines appended to what the section already holds.
FlushAppend ==
    IF Truthy(current_section) /\ current_content # <<>>
    THEN [sections EXCEPT ![current_section] =
             IF @ = <<>> THEN join(current_content, NL)
             ELSE @ \o <<NL>> \o join(current_content, NL)]
    ELSE sections

\* The assignment guarded by "if current_section and current_content".
Flush ==
    IF Truthy(current_section) /\ current_content # <<>>
    THEN [sections EXCEPT ![current_section] = join(current_content, NL)]
    ELSE sections

ScanHeading ==
    /\ pc = "scan"
    /\ i < Len(lines)
    /\ LET line == strip(lines[i + 1])
       IN  /\ InSections(line)
           /\ sections' = Flush
           /\ current_section' = line
           /\ current_content' = <<>>
    /\ i' = i + 1
    /\ UNCHANGED <<content, lines, k, pc, document, output_file, saves, calls>>

ScanBody ==
    /\ pc = "scan"
    /\ i < Len(lines)
    /\ LET line == strip(lines[i + 1])
       IN  /\ ~InSections(line)
           /\ Truthy(line) /\ Truthy(current_section)
           /\ current_content' = Append(current_content, line)
    /\ i' = i + 1
    /\ UNCHANGED <<content, lines, sections, current_section, k, pc,
                   document, output_file, saves, calls>>

ScanSkip ==
    /\ pc = "scan"
    /\ i < Len(lines)
    /\ LET line == strip(lines[i + 1])
       IN  /\ ~InSections(line)
           /\ ~(Truthy(line) /\ Truthy(current_section))
    /\ i' = i + 1
    /\ UNCHANGED <<content, lines, sections, current_section, current_content, k, pc,
                   document, output_file, saves, calls>>

\* Lines 244-246 of the source: the loop is exhausted, the last section is stored.
FlushLast ==
    /\ pc = "scan"
    /\ i = Len(lines)
    /\ sections' = Flush
    /\ pc' = "write"
    /\ UNCHANGED <<content, lines, current_section, current_content, i, k,
                   document, output_file, saves, calls>>

\* "if content:" of line 250.
WriteLoopGuard(c) == Truthy(c)

\* The exception swallowed: the loop goes on with the next section.
InvokeSwallowed == "write"

\* Where control goes when llm.invoke raises inside write_section.
InvokeRaised == "raised"

\* One iteration of the loop of line 249 that calls write_section.
WriteSection ==
    /\ pc = "write"
    /\ k <= Len(SectionsItems)
    /\ LET section == SectionsItems[k]
           c == sections[section]
       IN  /\ WriteLoopGuard(c)
           /\ \E o \in FormatSectionContent(section, c) :
                /\ calls' = Append(calls, CallRecord(section, c, o))
                /\ IF o.result = Raise
                   THEN /\ pc' = InvokeRaised
                        /\ UNCHANGED document
                   ELSE /\ pc' = pc
                        /\ document' =
                             document \o WriteSectionParagraphs(section, o.result)
    /\ k' = k + 1
    /\ UNCHANGED <<content, lines, sections, current_section, current_content,
                   i,
                   output_file, saves>>

\* One iteration of the loop of line 249 whose section is empty.
SkipSection ==
    /\ pc = "write"
    /\ k <= Len(SectionsItems)
    /\ ~WriteLoopGuard(sections[SectionsItems[k]])
    /\ k' = k + 1
    /\ UNCHANGED <<content, lines, sections, current_section, current_content,
                   i, pc,
                   document, output_file, saves, calls>>

\* ResumeWriter.save
SavedFile == [exists |-> TRUE, paragraphs |-> document]

Save ==
    /\ pc = "write"
    /\ k = Len(SectionsItems) + 1
    /\ output_file' = SavedFile
    /\ saves' = saves + 1
    /\ pc' = "done"
    /\ UNCHANGED <<content, lines, sections, current_section, current_content,
                   i, k,
                   document, calls>>

Next ==
    \/ ScanHeading
    \/ ScanBody
    \/ ScanSkip
    \/ FlushLast
    \/ WriteSection
    \/ SkipSection
    \/ Save

Spec == Init /\ [][Next]_vars

-----------------------------------------------------------------------------
(* ResumeWriter driven directly: any sequence of its method calls *)

ApiTitles == {<<"Skills">>, <<"Summary">>}
ApiContents == {<<>>, <<" ">>, <<"\t", "\n">>, BodyB}

InitApi ==
    /\ content = <<>>
    /\ lines = split(content, NL)
    /\ sections = InitialSections
    /\ current_section = InitialCurrentSection
    /\ current_content = <<>>
    /\ i = 0
    /\ k = 1
    /\ pc = "api"
    /\ InitWriter

ApiBudget == Len(calls) + saves < MaxApiCalls

\* _format_section_content(section_name, content) called on its own.
ApiFormat ==
    /\ pc = "api" /\ ApiBudget
    /\ \E section_name \in ApiTitles, c \in ApiContents :
         \E o \in FormatSectionContent(section_name, c) :
            calls' = Append(calls, CallRecord(section_name, c, o))
    /\ UNCHANGED <<content, lines, sections, current_section, current_content,
                   i, k, pc,
                   document, output_file, saves>>

\* write_section(title, content) called on its own.
ApiWriteSection ==
    /\ pc = "api" /\ ApiBudget
    /\ \E title \in ApiTitles, c \in ApiContents :
         \E o \in FormatSectionContent(title, c) :
            /\ calls' = Append(calls, CallRecord(title, c, o))
            /\ document' = IF o.result = Raise
                           THEN document
                           ELSE document \o WriteSectionParagraphs(title, o.result)
    /\ UNCHANGED <<content, lines, sections, current_section, current_content,
                   i, k, pc,
                   output_file, saves>>

\* save() called on its own.
ApiSave ==
    /\ pc = "api" /\ ApiBudget
    /\ output_file' = SavedFile
    /\ saves' = saves + 1
    /\ UNCHANGED <<content, lines, sections, current_section, current_content,
                   i, k, pc,
                   document, calls>>

NextApi ==
    \/ ApiFormat
    \/ ApiWriteSection
    \/ ApiSave

SpecWriter == InitApi /\ [][NextApi]_vars

-----------------------------------------------------------------------------
(* Vocabulary of the properties *)

\* The partitioning loop has finished.
Partitioned == pc \in {"write", "raised", "done"}

IsHeadingLine(n) == strip(lines[n]) \in SectionSet
IsBodyLine(n) == ~IsHeadingLine(n) /\ strip(lines[n]) # <<>>

\* The section that is current while line n is read: the last heading before it.
CurrentAt(n) ==
    LET hs == {h \in 1..(n - 1) : IsHeadingLine(h)}
    IN  IF hs = {} THEN None
        ELSE strip(lines[CHOOSE h \in hs : \A g \in hs : g <= h])

\* The stripped lines at the positions of idx, in input order, from position n on.
RECURSIVE LinesAt(_, _)
LinesAt(idx, n) ==
    IF n > Len(lines) THEN <<>>
    ELSE (IF n \in idx THEN <<strip(lines[n])>> ELSE <<>>) \o LinesAt(idx, n + 1)

\* All body lines read while s is current.
AllBodyOf(s) ==
    LinesAt({n \in 1..Len(lines) : IsBodyLine(n) /\ CurrentAt(n) = s}, 1)

\* The body lines between heading line h and the next heading line.
BodyAfter(h) ==
    LinesAt({n \in (h + 1)..Len(lines) :
                IsBodyLine(n) /\ \A m \in (h + 1)..n : ~IsHeadingLine(m)}, 1)

\* Heading lines of s that have at least one body line.
Occurrences(s) ==
    {h \in 1..Len(lines) : strip(lines[h]) = s /\ BodyAfter(h) # <<>>}

NonEmptySections == {s \in SectionSet : sections[s] # <<>>}

IsHeadingParagraph(p) == p.bold
Headings(doc) == SelectSeq(doc, IsHeadingParagraph)

IsInvoke(c) == c.invoked
Invocations == SelectSeq(calls, IsInvoke)

\* The order the specification fixes for the output.
CanonicalOrder ==
    << <<"Professional Profile">>, <<"Recent Experience">>,
       <<"Education">>, <<"Skills">> >>
CanonicalIndex(s) == CHOOSE n \in 1..Len(CanonicalOrder) : CanonicalOrder[n] = s

-----------------------------------------------------------------------------
(* Properties *)

\* C1: no write_section call leaves an empty section block: the document
\* never holds a heading paragraph directly followed by its spacer.
C1_NoEmptySectionBlock ==
    \A n \in 1..(Len(document) - 1) :
        ~(IsHeadingParagraph(document[n]) /\ document[n + 1] = SpacerParagraph)

\* C2, as claimed: a line that starts with the bullet marker becomes a bullet
\* paragraph whose text is the line without the whole marker; any other
\* non-blank line becomes a plain paragraph holding the trimmed line.
RECURSIVE ClaimedStrParagraphs(_)
ClaimedStrParagraphs(paragraphs) ==
    IF paragraphs = <<>> THEN <<>>
    ELSE LET para == strip(Head(paragraphs))
             rest == SubSeq(para, Len(BulletMarker) + 1, Len(para))
             this == IF para = <<>> THEN <<>>
                     ELSE IF startswith(para, BulletMarker)
                          THEN <<BulletParagraph(strip(rest))>>
                          ELSE <<PlainParagraph(para)>>
         IN  this \o ClaimedStrParagraphs(Tail(paragraphs))

RECURSIVE ClaimedDocument(_)
ClaimedDocument(cs) ==
    IF cs = <<>> THEN <<>>
    ELSE LET c == Head(cs)
             body == IF c.result.type = "str"
                     THEN ClaimedStrParagraphs(split(c.result.text, NL))
                     ELSE ListParagraphs(c.result.items)
             this == IF c.result = Raise THEN <<>>
                     ELSE <<HeadingParagraph(c.section_name)>> \o body
                            \o <<SpacerParagraph>>
         IN  this \o ClaimedDocument(Tail(cs))

TrimmedTexts(doc) == [n \in 1..Len(doc) |-> [doc[n] EXCEPT !.text = strip(@)]]

\* C2: the document is what the claimed rendering of every formatter result
\* gives, texts compared after trimming.
C2_BulletMarkerRemoved ==
    TrimmedTexts(document) = TrimmedTexts(ClaimedDocument(calls))

\* C3: heading paragraphs, and the write_section calls, follow the canonical
\* order whatever the order of the headings in the input; a finished run has
\* a heading for exactly the non-empty sections.
C3_CanonicalOrder ==
    LET hs == Headings(document)
    IN  /\ \A a, b \in 1..Len(hs) :
              a < b => CanonicalIndex(hs[a].text) < CanonicalIndex(hs[b].text)
        /\ \A a, b \in 1..Len(calls) :
              a < b => CanonicalIndex(calls[a].section_name)
                         < CanonicalIndex(calls[b].section_name)
        /\ pc = "done" => {hs[n].text : n \in 1..Len(hs)} = NonEmptySections

\* A run that wrote all four sections from an input that lists them in the
\* reverse of the canonical order.
C3_Witness ==
    /\ pc = "done"
    /\ Len(Headings(document)) = Len(CanonicalOrder)
    /\ Len(lines) = 2 * Len(CanonicalOrder)
    /\ \A n \in 1..Len(CanonicalOrder) :
          strip(lines[2 * n - 1]) = CanonicalOrder[Len(CanonicalOrder) + 1 - n]

\* C4, as claimed: after partitioning, each section holds every body line
\* read while it was current, in input order, none dropped.
C4_AllSectionLinesKept ==
    Partitioned => \A s \in SectionSet : sections[s] = join(AllBodyOf(s), NL)

\* C5, as claimed: a call of _format_section_content whose content is empty
\* or whitespace only returns the content and does not call the LLM.
C5_BlankPassThrough ==
    \A n \in 1..Len(calls) :
        strip(calls[n].content) = <<>> =>
            /\ ~calls[n].invoked
            /\ calls[n].result = StrValue(calls[n].content)

\* C6: once an LLM call has failed the run is aborted and nothing is ever
\* saved; a file exists only after every non-empty section was written.
C6_NoSaveAfterFailure ==
    /\ (\E n \in 1..Len(calls) : calls[n].result = Raise) =>
          /\ pc = "raised"
          /\ calls[Len(calls)].result = Raise
          /\ output_file = NoFile
          /\ saves = 0
    /\ pc = "raised" => calls # <<>> /\ calls[Len(calls)].result = Raise
    /\ (output_file.exists \/ saves > 0) =>
          /\ pc = "done"
          /\ \A s \in NonEmptySections :
                /\ \E n \in 1..Len(calls) :
                      calls[n].section_name = s /\ calls[n].result # Raise
                /\ \E n \in 1..Len(document) :
                      document[n] = HeadingParagraph(s)

\* The LLM fails on a later section, after an earlier one was written.
C6_Witness ==
    /\ pc = "raised"
    /\ document # <<>>
    /\ output_file = NoFile

\* Every formatter call so far returned its content unchanged.
IdentityFormatter ==
    \A n \in 1..Len(calls) : calls[n].result = StrValue(calls[n].content)

\* C7: on the four-line end-to-end input the partition is Professional
\* Profile and Skills with one body line each, and with an identity formatter
\* the finished document is heading, plain paragraph, spacer for each of the
\* two, in canonical order, saved once.
C7_EndToEnd ==
    content = join(EndToEndInput, NL) =>
        /\ Partitioned =>
              sections = [s \in SectionSet |->
                            IF s = <<"Professional Profile">> THEN BodyA
                            ELSE IF s = <<"Skills">> THEN BodyB
                            ELSE <<>>]
        /\ (pc = "done" /\ IdentityFormatter) =>
              /\ document =
                   << HeadingParagraph(<<"Professional Profile">>),
                      PlainParagraph(BodyA), SpacerParagraph,
                      HeadingParagraph(<<"Skills">>),
                      PlainParagraph(BodyB), SpacerParagraph >>
              /\ saves = 1
              /\ output_file = [exists |-> TRUE, paragraphs |-> document]

C7_Witness ==
    /\ content = join(EndToEndInput, NL)
    /\ pc = "done"
    /\ IdentityFormatter
    /\ Len(calls) = 2

\* C8: the LLM is invoked once for each non-empty section reached so far and
\* never for an empty one; a finished run made one call per non-empty section.
C8_OneCallPerNonEmptySection ==
    Partitioned =>
        /\ \A s \in SectionSet :
              Cardinality({n \in 1..Len(Invocations) :
                              Invocations[n].section_name = s})
                 = IF s \in NonEmptySections
                      /\ \E m \in 1..(k - 1) : SectionsItems[m] = s
                   THEN 1 ELSE 0
        /\ \A n \in 1..Len(Invocations) :
              Invocations[n].content = sections[Invocations[n].section_name]
        /\ pc = "done" => Len(Invocations) = Cardinality(NonEmptySections)

\* A finished run with two non-empty and two empty sections.
C8_Witness ==
    /\ pc = "done"
    /\ Cardinality(NonEmptySections) = 2
    /\ Len(Invocations) = 2

\* C9: an input without any heading line leaves all four sections empty,
\* write_section is never called and the saved document is empty.
NoHeadingLine == \A n \in 1..Len(lines) : strip(lines[n]) \notin SectionSet

C9_NoHeadingNoSection ==
    NoHeadingLine =>
        /\ \A s \in SectionSet : sections[s] = <<>>
        /\ calls = <<>>
        /\ document = <<>>
        /\ pc # "raised"
        /\ pc = "done" => output_file = [exists |-> TRUE, paragraphs |-> <<>>]

\* A finished run on an input of body lines only.
C9_Witness ==
    /\ NoHeadingLine
    /\ pc = "done"
    /\ \E n \in 1..Len(lines) : strip(lines[n]) # <<>>

\* C10: after partitioning, a section holds the body of the last occurrence
\* of its heading that has a body line, and nothing of earlier occurrences.
C10_LastOccurrenceWins ==
    Partitioned =>
        \A s \in SectionSet :
            LET occ == Occurrences(s)
            IN  sections[s] =
                    IF occ = {} THEN <<>>
                    ELSE join(BodyAfter(CHOOSE h \in occ : \A g \in occ : g <= h), NL)

\* A heading occurs twice, both times with a body, and the bodies differ.
C10_Witness ==
    /\ Partitioned
    /\ \E s \in SectionSet : \E g, h \in Occurrences(s) :
          /\ g < h
          /\ BodyAfter(g) # BodyAfter(h)
          /\ sections[s] = join(BodyAfter(h), NL)

====
